---- MODULE Spec2Model ----
(***************************************************************************)
(* Model of the ExpenseScreen component of student-expense-tracker:        *)
(* the form and edit state, the handlers handleSaveExpense, deleteExpense, *)
(* startEditExpense, loadExpenses, the SQLite table they talk to, and the   *)
(* derived view (getFilteredExpenses, totalSpending, categoryTotals).      *)
(*                                                                         *)
(* The screen modelled is the revision that renders the form and the edit  *)
(* tap (src/unnamed/part_000). src/ExpenseScreen.js has the same filter and *)
(* summary code but renders neither the inputs nor the save button, so its  *)
(* handleSaveExpense and startEditExpense are never called; what that       *)
(* screen does differently (its awaits sit outside any try block) is        *)
(* SpecLegacy.                                                              *)
(*                                                                         *)
(* The store is one SQLite connection: calls are served oldest first, and   *)
(* a call's effect and the resumption of the handler awaiting it are one    *)
(* step (nothing else reads the table in between).                          *)
(*                                                                         *)
(* Texts are sequences of one-character strings; numbers are fixed-point   *)
(* integers in tenths (12.5 is 125); an instant is a number of seconds     *)
(* since 1970-01-01T00:00:00Z plus milliseconds; a stored date text        *)
(* "YYYY-MM-DD" is a record of its three zero-padded fields.               *)
(***************************************************************************)
EXTENDS Integers, Sequences, FiniteSets, TLC

VARIABLES
    db,         \* rows of table expenses (a set of records keyed by id)
    nextId,     \* AUTOINCREMENT: the id the next INSERT is given
    queue,      \* store calls issued and not yet resolved, oldest first
    listAtIssue, \* history: for each call of queue, expenses when it was issued
    expenses,   \* useState([]): the in-memory record list
    amount,     \* useState(''): form text
    category,   \* useState(''): form text
    note,       \* useState(''): form text
    filter,     \* useState('ALL')
    editingId,  \* useState(null): 0 stands for null
    now,        \* the device clock: seconds since the epoch (UTC)
    tz,         \* the device's local offset, minutes east of UTC
    alert,      \* the title of the alert the last step raised, "none" if none
    event       \* the handler the last step ran

vars == <<db, nextId, queue, listAtIssue, expenses, amount, category, note, filter,
          editingId, now, tz, alert, event>>

-----------------------------------------------------------------------------
(* Bounds of the model *)

\* ids handed out by AUTOINCREMENT during one session
MaxId == 2
\* store calls in flight at a time
MaxQueue == 2
\* hours the clock may advance in one session
MaxTicks == 1

-----------------------------------------------------------------------------
(* Texts: String.prototype.trim, parseFloat, String(number) *)

Digits == <<"0", "1", "2", "3", "4", "5", "6", "7", "8", "9">>

IsDigit(c) == \E i \in 1..10 : Digits[i] = c

DigitVal(c) == (CHOOSE i \in 1..10 : Digits[i] = c) - 1

IsWhite(c) == c = " "

SetMin(S) == CHOOSE x \in S : \A y \in S : x <= y

SetMax(S) == CHOOSE x \in S : \A y \in S : x >= y

\* s.trim(): s without its leading and trailing white space
trim(s) ==
    LET ink == {i \in 1..Len(s) : ~IsWhite(s[i])}
    IN  IF ink = {} THEN <<>> ELSE SubSeq(s, SetMin(ink), SetMax(ink))

\* the part of s after its leading white space (parseFloat skips it)
trimStart(s) ==
    LET ink == {i \in 1..Len(s) : ~IsWhite(s[i])}
    IN  IF ink = {} THEN <<>> ELSE SubSeq(s, SetMin(ink), Len(s))

\* the number of leading digits of s
DigitRun(s) ==
    LET stops == {i \in 1..Len(s) : ~IsDigit(s[i])}
    IN  IF stops = {} THEN Len(s) ELSE SetMin(stops) - 1

RECURSIVE DigitsValue(_)
DigitsValue(s) ==
    IF s = <<>> THEN 0
    ELSE 10 * DigitsValue(SubSeq(s, 1, Len(s) - 1)) + DigitVal(s[Len(s)])

NaN == [nan |-> TRUE, v |-> 0]

Num(v) == [nan |-> FALSE, v |-> v]

\* parseFloat(s): the longest prefix of s, after leading white space, that is
\* a decimal literal [+-]digits[.digits]; NaN when there is none. Whatever
\* follows the literal is ignored. The value is in tenths: fraction digits
\* after the first are dropped.
parseFloat(s) ==
    LET t    == trimStart(s)
        neg  == t # <<>> /\ t[1] = "-"
        sgn  == t # <<>> /\ t[1] \in {"-", "+"}
        u    == IF sgn THEN Tail(t) ELSE t
        ni   == DigitRun(u)
        r    == SubSeq(u, ni + 1, Len(u))
        dot  == r # <<>> /\ r[1] = "."
        f    == IF dot THEN Tail(r) ELSE <<>>
        nf   == DigitRun(f)
        mag  == 10 * DigitsValue(SubSeq(u, 1, ni))
                  + (IF nf > 0 THEN DigitVal(f[1]) ELSE 0)
    IN  IF ni = 0 /\ nf = 0 THEN NaN
        ELSE Num(IF neg THEN 0 - mag ELSE mag)

RECURSIVE NatToText(_)
NatToText(n) ==
    IF n < 10 THEN <<Digits[n + 1]>>
    ELSE NatToText(n \div 10) \o <<Digits[(n % 10) + 1]>>

\* String(x) of a number x >= 0 held in tenths: "2", "1.5"
NumberToString(v) ==
    IF v % 10 = 0 THEN NatToText(v \div 10)
    ELSE NatToText(v \div 10) \o <<".">> \o <<Digits[(v % 10) + 1]>>

-----------------------------------------------------------------------------
(* Dates: the ECMAScript Date of the platform *)

\* days from 1970-01-01 to the civil day y-m-d (m in 1..12), any d
DaysFromCivil(y, m, d) ==
    LET yy  == IF m <= 2 THEN y - 1 ELSE y
        era == yy \div 400
        yoe == yy - era * 400
        mp  == IF m > 2 THEN m - 3 ELSE m + 9
        doy == (153 * mp + 2) \div 5 + d - 1
        doe == yoe * 365 + yoe \div 4 - yoe \div 100 + doy
    IN  era * 146097 + doe - 719468

\* the civil day [y, m, d] (m in 1..12) that is z days after 1970-01-01
CivilFromDays(z) ==
    LET zz  == z + 719468
        era == zz \div 146097
        doe == zz - era * 146097
        yoe == (doe - doe \div 1460 + doe \div 36524 - doe \div 146096) \div 365
        doy == doe - (365 * yoe + yoe \div 4 - yoe \div 100)
        mp  == (5 * doy + 2) \div 153
        dd  == doy - (153 * mp + 2) \div 5 + 1
        mm  == IF mp < 10 THEN mp + 3 ELSE mp - 9
    IN  [y |-> yoe + era * 400 + (IF mm <= 2 THEN 1 ELSE 0), m |-> mm, d |-> dd]

DaysInMonth(y, m) ==
    IF m = 12 THEN 31 ELSE DaysFromCivil(y, m + 1, 1) - DaysFromCivil(y, m, 1)

\* a Date object: its time value, or an Invalid Date
InvalidDate == [nan |-> TRUE, s |-> 0, ms |-> 0]

Instant(s, ms) == [nan |-> FALSE, s |-> s, ms |-> ms]

\* new Date(): the clock
Today(clock) == Instant(clock, 0)

\* the local day number and second of the day of a Date, at offset zone
LocalDayOf(t, zone) == (t.s + zone * 60) \div (24 * 60 * 60)

LocalSecOf(t, zone) == (t.s + zone * 60) % (24 * 60 * 60)

\* the Date at local day number dn, second sec of that day, millisecond ms
FromLocal(dn, sec, ms, zone) == Instant(dn * (24 * 60 * 60) + sec - zone * 60, ms)

getFullYear(t, zone) == CivilFromDays(LocalDayOf(t, zone)).y

\* 0 is January
getMonth(t, zone) == CivilFromDays(LocalDayOf(t, zone)).m - 1

getDate(t, zone) == CivilFromDays(LocalDayOf(t, zone)).d

\* 0 is Sunday; 1970-01-01 was a Thursday
getDay(t, zone) == (LocalDayOf(t, zone) + 4) % 7

\* t.setDate(n): day n of t's local month (n <= 0 and n past the end of the
\* month roll over), the local time of day kept
setDate(t, n, zone) ==
    LET c == CivilFromDays(LocalDayOf(t, zone))
    IN  FromLocal(DaysFromCivil(c.y, c.m, 1) + n - 1, LocalSecOf(t, zone), t.ms, zone)

\* t.setHours(h, mi, sec, ms): that local time on t's local day
setHours(t, h, mi, sec, ms, zone) ==
    FromLocal(LocalDayOf(t, zone), (h * 60 + mi) * 60 + sec, ms, zone)

\* a <= b on Dates: false when either is an Invalid Date
DateLE(a, b) ==
    /\ ~a.nan
    /\ ~b.nan
    /\ (a.s < b.s \/ (a.s = b.s /\ a.ms <= b.ms))

\* Date texts. k says which text it is:
\*   "ymd"   "YYYY-MM-DD", zero-padded, fields y, m, d
\*   "ymdT"  "YYYY-MM-DDTHH:00:00Z", an ISO date-time, fields y, m, d, h
\*   "text"  a text that is no date at all ("abc")
\*   "empty" the empty string
\*   "null"  no text: NULL
DateText(k, y, m, d, h) == [k |-> k, y |-> y, m |-> m, d |-> d, h |-> h]

Ymd(y, m, d) == DateText("ymd", y, m, d, 0)

\* !exp.date
DateFalsy(dt) == dt.k \in {"null", "empty"}

\* new Date(text): a date-only ISO text is UTC midnight of that day, an ISO
\* date-time with Z is that UTC instant; a field out of range or a text that
\* is no date gives an Invalid Date
NewDate(dt) ==
    LET legal == /\ dt.m \in 1..12
                 /\ dt.d >= 1
                 /\ dt.d <= DaysInMonth(dt.y, dt.m)
                 /\ dt.h \in 0..23
    IN  IF dt.k \in {"ymd", "ymdT"} /\ legal
        THEN Instant(DaysFromCivil(dt.y, dt.m, dt.d) * (24 * 60 * 60) + dt.h * 60 * 60, 0)
        ELSE InvalidDate

\* getTodayString(): the local year, month and day of the clock as
\* "YYYY-MM-DD"
getTodayString(clock, zone) ==
    LET today == Today(clock)
    IN  Ymd(getFullYear(today, zone), getMonth(today, zone) + 1, getDate(today, zone))

-----------------------------------------------------------------------------
(* The derived view: getFilteredExpenses, totalSpending, categoryTotals *)

\* the MONTH test of one record
InMonth(exp, clock, zone) ==
    LET today == Today(clock)
        d     == NewDate(exp.date)
    IN  /\ ~DateFalsy(exp.date)
        /\ ~d.nan
        /\ getFullYear(d, zone) = getFullYear(today, zone)
        /\ getMonth(d, zone) = getMonth(today, zone)

\* Sunday 00:00:00.000 local of the week of the clock
startOfWeek(clock, zone) ==
    LET today == Today(clock)
    IN  setHours(setDate(today, getDate(today, zone) - getDay(today, zone), zone),
                 0, 0, 0, 0, zone)

\* Saturday 23:59:59.999 local of that week
endOfWeek(clock, zone) ==
    LET sow == startOfWeek(clock, zone)
    IN  setHours(setDate(sow, getDate(sow, zone) + 6, zone), 23, 59, 59, 999, zone)

\* the WEEK test of one record
InWeek(exp, clock, zone) ==
    LET d == NewDate(exp.date)
    IN  /\ ~DateFalsy(exp.date)
        /\ DateLE(startOfWeek(clock, zone), d)
        /\ DateLE(d, endOfWeek(clock, zone))

\* expenses.filter(...) of the MONTH branch
RECURSIVE FilterMonth(_, _, _)
FilterMonth(list, clock, zone) ==
    IF list = <<>> THEN <<>>
    ELSE (IF InMonth(Head(list), clock, zone) THEN <<Head(list)>> ELSE <<>>)
             \o FilterMonth(Tail(list), clock, zone)

\* expenses.filter(...) of the WEEK branch
RECURSIVE FilterWeek(_, _, _)
FilterWeek(list, clock, zone) ==
    IF list = <<>> THEN <<>>
    ELSE (IF InWeek(Head(list), clock, zone) THEN <<Head(list)>> ELSE <<>>)
             \o FilterWeek(Tail(list), clock, zone)

getFilteredExpenses(list, f, clock, zone) ==
    IF f = "ALL" THEN list
    ELSE IF f = "MONTH" THEN FilterMonth(list, clock, zone)
    ELSE IF f = "WEEK" THEN FilterWeek(list, clock, zone)
    ELSE list

filteredExpenses == getFilteredExpenses(expenses, filter, now, tz)

\* Number(exp.amount || 0)
AmountOf(exp) == exp.amount

RECURSIVE totalSpending(_)
totalSpending(list) ==
    IF list = <<>> THEN 0
    ELSE totalSpending(SubSeq(list, 1, Len(list) - 1)) + AmountOf(list[Len(list)])

Uncategorized ==
    <<"U", "n", "c", "a", "t", "e", "g", "o", "r", "i", "z", "e", "d">>

\* names every object inherits from Object.prototype (two of them)
InheritedKeys ==
    { <<"c", "o", "n", "s", "t", "r", "u", "c", "t", "o", "r">>,
      <<"t", "o", "S", "t", "r", "i", "n", "g">> }

\* a key that is a canonical array index ("0", "2", "10"): an object lists
\* these first, in ascending numeric order, before its other keys
IsIndexKey(k) ==
    /\ k # <<>>
    /\ \A i \in 1..Len(k) : IsDigit(k[i])
    /\ (Len(k) > 1 => k[1] # "0")

HasOwn(obj, k) == \E i \in 1..Len(obj) : obj[i].key = k

OwnIndex(obj, k) == CHOOSE i \in 1..Len(obj) : obj[i].key = k

\* where a new own property k goes in the property order of obj
InsertAt(obj, k) ==
    IF IsIndexKey(k)
    THEN Cardinality({i \in 1..Len(obj) :
                        /\ IsIndexKey(obj[i].key)
                        /\ DigitsValue(obj[i].key) < DigitsValue(k)}) + 1
    ELSE Len(obj) + 1

\* obj[k] = val. A property value is a number (isNum, v) or, after += on an
\* inherited function, a string (isNum FALSE)
SetProp(obj, k, isNum, v) ==
    LET e == [key |-> k, isNum |-> isNum, v |-> v]
    IN  IF HasOwn(obj, k)
        THEN [obj EXCEPT ![OwnIndex(obj, k)] = e]
        ELSE LET at == InsertAt(obj, k)
             IN  SubSeq(obj, 1, at - 1) \o <<e>> \o SubSeq(obj, at, Len(obj))

\* one pass of the forEach body over exp
AddToTotals(obj, exp) ==
    LET cat   == IF exp.category = <<>> THEN Uncategorized ELSE exp.category
        amt   == AmountOf(exp)
        own   == HasOwn(obj, cat)
        cur   == obj[OwnIndex(obj, cat)]
        \* !categoryTotals[cat]: undefined and 0 are falsy; an inherited
        \* function and a non-empty string are truthy
        falsy == IF own THEN cur.isNum /\ cur.v = 0 ELSE cat \notin InheritedKeys
    IN  IF falsy THEN SetProp(obj, cat, TRUE, 0 + amt)
        ELSE IF own /\ cur.isNum THEN SetProp(obj, cat, TRUE, cur.v + amt)
        ELSE SetProp(obj, cat, FALSE, 0)

\* the object categoryTotals, as the sequence of its own properties in
\* property order
RECURSIVE categoryTotals(_)
categoryTotals(list) ==
    IF list = <<>> THEN <<>>
    ELSE AddToTotals(categoryTotals(SubSeq(list, 1, Len(list) - 1)), list[Len(list)])

-----------------------------------------------------------------------------
(* The table expenses and the calls made on it *)

\* a NULL in a TEXT column (no text is a sequence of this shape)
NULL == <<"NULL">>

Row(id, amt, cat, nt, dt) ==
    [id |-> id, amount |-> amt, category |-> cat, note |-> nt, date |-> dt]

NoDate == DateText("null", 0, 0, 0, 0)

\* a call on the store and the handler that awaits it
Call(op, by, id, amt, cat, nt, dt) ==
    [op |-> op, by |-> by, id |-> id, amount |-> amt, category |-> cat,
     note |-> nt, date |-> dt]

ExecCall == Call("exec", "setup", 0, 0, <<>>, NULL, NoDate)

SelectCall == Call("select", "loadExpenses", 0, 0, <<>>, NULL, NoDate)

\* SELECT * FROM expenses ORDER BY id DESC
RECURSIVE SelectAll(_)
SelectAll(rows) ==
    IF rows = {} THEN <<>>
    ELSE LET top == CHOOSE r \in rows : \A q \in rows : q.id <= r.id
         IN  <<top>> \o SelectAll(rows \ {top})

\* INSERT INTO expenses (amount, category, note, date) VALUES (?, ?, ?, ?)
Insert(rows, id, c) == rows \cup {Row(id, c.amount, c.category, c.note, c.date)}

\* UPDATE expenses SET amount = ?, category = ?, note = ?, date = ? WHERE id = ?
Update(rows, c) ==
    {IF r.id = c.id THEN Row(r.id, c.amount, c.category, c.note, c.date) ELSE r :
        r \in rows}

\* Delete without its WHERE clause
Delete_All(rows, c) == {}

\* DELETE FROM expenses WHERE id = ?
Delete(rows, c) == {r \in rows : r.id # c.id}

-----------------------------------------------------------------------------
(* The form, the edit state and the handlers *)

AmountTexts ==
    { <<>>, <<" ">>, <<"x">>, <<"0">>, <<"-", "1">>, <<"2">>,
      <<" ", "1", ".", "5">>, <<"3", "x">> }

CategoryTexts == { <<>>, <<" ">>, <<"F">>, <<" ", "f", " ">> }

NoteTexts == { <<>>, <<" ">>, <<" ", "n">> }

Filters == {"ALL", "WEEK", "MONTH"}

TimeZones == {0 - 300, 0, 330}

\* what the user types into the three inputs
TypedAmounts == { <<"2">> }

TypedCategories == { <<" ", "f", " ">> }

TypedNotes == { <<"n">> }

\* 2024-03-10T03:00:00Z: Saturday evening at UTC-5, Sunday morning at UTC+5:30
StartClock == DaysFromCivil(2024, 3, 10) * (24 * 60 * 60) + 3 * 60 * 60

TickStep == 4 * 60 * 60

\* SaveAlert with the category check left out
SaveAlert_NoCategoryCheck(a, c) ==
    IF trim(a) = <<>> THEN "Missing amount"
    ELSE IF parseFloat(a).nan \/ parseFloat(a).v <= 0 THEN "Invalid amount"
    ELSE "none"

\* SaveAlert with amountNumber < 0 for amountNumber <= 0
SaveAlert_ZeroAllowed(a, c) ==
    IF trim(a) = <<>> THEN "Missing amount"
    ELSE IF trim(c) = <<>> THEN "Missing category"
    ELSE IF parseFloat(a).nan \/ parseFloat(a).v < 0 THEN "Invalid amount"
    ELSE "none"

\* SaveAlert with the number check moved before the category check
SaveAlert_AmountFirst(a, c) ==
    IF trim(a) = <<>> THEN "Missing amount"
    ELSE IF parseFloat(a).nan \/ parseFloat(a).v <= 0 THEN "Invalid amount"
    ELSE IF trim(c) = <<>> THEN "Missing category"
    ELSE "none"

\* the first three checks of handleSaveExpense: the title of the alert they
\* raise, "none" when the form passes
SaveAlert(a, c) ==
    IF trim(a) = <<>> THEN "Missing amount"
    ELSE IF trim(c) = <<>> THEN "Missing category"
    ELSE IF parseFloat(a).nan \/ parseFloat(a).v <= 0 THEN "Invalid amount"
    ELSE "none"

\* NoteToStore without the || null
NoteToStore_NoNull(n) == trim(n)

\* trimmedNote || null
NoteToStore(n) == IF trim(n) = <<>> THEN NULL ELSE trim(n)

\* dateToUse that takes today's date also when editing
dateToUse_Today(list, eid, clock, zone) == getTodayString(clock, zone)

\* existing?.date || getTodayString()
dateToUse(list, eid, clock, zone) ==
    LET found == {i \in 1..Len(list) : list[i].id = eid}
    IN  IF found # {} /\ ~DateFalsy(list[SetMin(found)].date)
        THEN list[SetMin(found)].date
        ELSE getTodayString(clock, zone)

\* SaveCall that issues an INSERT also when editing
SaveCall_AlwaysInsert(a, c, n, list, eid, clock, zone) ==
    Call("insert", "handleSaveExpense", eid,
         parseFloat(a).v, trim(c), NoteToStore(n), dateToUse(list, eid, clock, zone))

\* SaveCall that passes category for trimmedCategory
SaveCall_Untrimmed(a, c, n, list, eid, clock, zone) ==
    Call(IF eid = 0 THEN "insert" ELSE "update", "handleSaveExpense", eid,
         parseFloat(a).v, c, NoteToStore(n), dateToUse(list, eid, clock, zone))

\* the INSERT or UPDATE that handleSaveExpense issues for a form that passes
SaveCall(a, c, n, list, eid, clock, zone) ==
    Call(IF eid = 0 THEN "insert" ELSE "update", "handleSaveExpense", eid,
         parseFloat(a).v, trim(c), NoteToStore(n), dateToUse(list, eid, clock, zone))

\* INSERTs issued and not yet resolved
PendingInserts == Cardinality({i \in 1..Len(queue) : queue[i].op = "insert"})

Init ==
    /\ db = {}
    /\ nextId = 1
    /\ queue = <<ExecCall>>
    /\ listAtIssue = << <<>> >>
    /\ expenses = <<>>
    /\ amount = <<>>
    /\ category = <<>>
    /\ note = <<>>
    /\ filter = "ALL"
    /\ editingId = 0
    /\ now = StartClock
    /\ tz \in TimeZones
    /\ alert = "none"
    /\ event = "mount"

\* onChangeText of the three inputs
setAmount ==
    /\ \E t \in TypedAmounts : amount' = t
    /\ alert' = "none"
    /\ event' = "setAmount"
    /\ UNCHANGED <<db, nextId, queue, listAtIssue, expenses, category, note, filter, editingId, now, tz>>

setCategory ==
    /\ \E t \in TypedCategories : category' = t
    /\ alert' = "none"
    /\ event' = "setCategory"
    /\ UNCHANGED <<db, nextId, queue, listAtIssue, expenses, amount, note, filter, editingId, now, tz>>

setNote ==
    /\ \E t \in TypedNotes : note' = t
    /\ alert' = "none"
    /\ event' = "setNote"
    /\ UNCHANGED <<db, nextId, queue, listAtIssue, expenses, amount, category, filter, editingId, now, tz>>

\* the filter buttons
setFilter ==
    /\ \E f \in Filters : filter' = f
    /\ alert' = "none"
    /\ event' = "setFilter"
    /\ UNCHANGED <<db, nextId, queue, listAtIssue, expenses, amount, category, note, editingId, now, tz>>

\* handleSaveExpense up to its await: the checks, then the INSERT or UPDATE
handleSaveExpense ==
    /\ alert' = SaveAlert(amount, category)
    /\ event' = "handleSaveExpense"
    /\ IF SaveAlert(amount, category) # "none"
       THEN UNCHANGED <<queue, listAtIssue>>
       ELSE /\ Len(queue) < MaxQueue
            /\ editingId = 0 => nextId + PendingInserts <= MaxId
            /\ listAtIssue' = Append(listAtIssue, expenses)
            /\ queue' = Append(queue,
                   SaveCall(amount, category, note, expenses, editingId, now, tz))
    /\ UNCHANGED <<db, nextId, expenses, amount, category, note, filter, editingId, now, tz>>

\* deleteExpense that leaves edit mode and the form alone
deleteExpense_KeepsEdit ==
    \E i \in 1..Len(filteredExpenses) :
        /\ Len(queue) < MaxQueue
        /\ listAtIssue' = Append(listAtIssue, expenses)
        /\ queue' = Append(queue,
               Call("delete", "deleteExpense", filteredExpenses[i].id, 0, <<>>,
                    NULL, NoDate))
        /\ alert' = "none"
        /\ event' = "deleteExpense"
        /\ UNCHANGED <<db, nextId, expenses, amount, category, note, filter,
                       editingId, now, tz>>

\* deleteExpense(id) up to its await, from the row's delete button
deleteExpense ==
    \E i \in 1..Len(filteredExpenses) :
        LET id == filteredExpenses[i].id
        IN  /\ Len(queue) < MaxQueue
            /\ IF editingId = id
               THEN /\ editingId' = 0
                    /\ amount' = <<>>
                    /\ category' = <<>>
                    /\ note' = <<>>
               ELSE UNCHANGED <<editingId, amount, category, note>>
            /\ listAtIssue' = Append(listAtIssue, expenses)
            /\ queue' = Append(queue,
                   Call("delete", "deleteExpense", id, 0, <<>>, NULL, NoDate))
            /\ alert' = "none"
            /\ event' = "deleteExpense"
            /\ UNCHANGED <<db, nextId, expenses, filter, now, tz>>

\* startEditExpense(item), from a tap on the row
startEditExpense ==
    \E i \in 1..Len(filteredExpenses) :
        LET expense == filteredExpenses[i]
        IN  /\ editingId' = expense.id
            /\ amount' = NumberToString(expense.amount)
            /\ category' = expense.category
            /\ note' = (IF expense.note = NULL THEN <<>> ELSE expense.note)
            /\ alert' = "none"
            /\ event' = "startEditExpense"
            /\ UNCHANGED <<db, nextId, queue, listAtIssue, expenses, filter, now, tz>>

\* cancelEdit that leaves the form texts in place
cancelEdit_KeepsForm ==
    /\ editingId # 0
    /\ editingId' = 0
    /\ alert' = "none"
    /\ event' = "cancelEdit"
    /\ UNCHANGED <<db, nextId, queue, listAtIssue, expenses, amount, category, note, filter, now, tz>>

\* the Cancel Edit button, shown while editing
cancelEdit ==
    /\ editingId # 0
    /\ editingId' = 0
    /\ amount' = <<>>
    /\ category' = <<>>
    /\ note' = <<>>
    /\ alert' = "none"
    /\ event' = "cancelEdit"
    /\ UNCHANGED <<db, nextId, queue, listAtIssue, expenses, filter, now, tz>>

\* the clock moves on
Tick ==
    /\ (now - StartClock) % (24 * 60 * 60) < MaxTicks * TickStep
    /\ now' = now + TickStep
    /\ alert' = "none"
    /\ event' = "tick"
    /\ UNCHANGED <<db, nextId, queue, listAtIssue, expenses, amount, category, note, filter, editingId, tz>>

\* setup(): CREATE TABLE IF NOT EXISTS resolved, then loadExpenses()
setupResolved ==
    /\ queue # <<>>
    /\ Head(queue).op = "exec"
    /\ listAtIssue' = Append(Tail(listAtIssue), expenses)
    /\ queue' = Append(Tail(queue), SelectCall)
    /\ alert' = "none"
    /\ event' = "setupResolved"
    /\ UNCHANGED <<db, nextId, expenses, amount, category, note, filter, editingId, now, tz>>

\* loadExpenses(): the SELECT resolved, setExpenses(rows)
loadResolved ==
    /\ queue # <<>>
    /\ Head(queue).op = "select"
    /\ listAtIssue' = Tail(listAtIssue)
    /\ queue' = Tail(queue)
    /\ expenses' = SelectAll(db)
    /\ alert' = "none"
    /\ event' = "loadResolved"
    /\ UNCHANGED <<db, nextId, amount, category, note, filter, editingId, now, tz>>

\* saveResolved without the loadExpenses() that ends handleSaveExpense
saveResolved_NoReload ==
    /\ queue # <<>>
    /\ Head(queue).op \in {"insert", "update"}
    /\ IF Head(queue).op = "insert"
       THEN /\ db' = Insert(db, nextId, Head(queue))
            /\ nextId' = nextId + 1
       ELSE /\ db' = Update(db, Head(queue))
            /\ UNCHANGED nextId
    /\ amount' = <<>>
    /\ category' = <<>>
    /\ note' = <<>>
    /\ editingId' = 0
    /\ listAtIssue' = Tail(listAtIssue)
    /\ queue' = Tail(queue)
    /\ alert' = "none"
    /\ event' = "saveResolved"
    /\ UNCHANGED <<expenses, filter, now, tz>>

\* handleSaveExpense after its await: the INSERT or UPDATE resolved, the
\* form is reset, edit mode left, and loadExpenses() issues its SELECT
saveResolved ==
    /\ queue # <<>>
    /\ Head(queue).op \in {"insert", "update"}
    /\ IF Head(queue).op = "insert"
       THEN /\ db' = Insert(db, nextId, Head(queue))
            /\ nextId' = nextId + 1
       ELSE /\ db' = Update(db, Head(queue))
            /\ UNCHANGED nextId
    /\ amount' = <<>>
    /\ category' = <<>>
    /\ note' = <<>>
    /\ editingId' = 0
    /\ listAtIssue' = Append(Tail(listAtIssue), expenses)
    /\ queue' = Append(Tail(queue), SelectCall)
    /\ alert' = "none"
    /\ event' = "saveResolved"
    /\ UNCHANGED <<expenses, filter, now, tz>>

\* deleteExpense after its await: the DELETE resolved, loadExpenses()
deleteResolved ==
    /\ queue # <<>>
    /\ Head(queue).op = "delete"
    /\ db' = Delete(db, Head(queue))
    /\ listAtIssue' = Append(Tail(listAtIssue), expenses)
    /\ queue' = Append(Tail(queue), SelectCall)
    /\ alert' = "none"
    /\ event' = "deleteResolved"
    /\ UNCHANGED <<nextId, expenses, amount, category, note, filter, editingId, now, tz>>

\* the alert of the catch block of the handler that awaits call c
CatchAlert(c) ==
    IF c.by = "setup" THEN "Failed to set up the database."
    ELSE IF c.by = "loadExpenses" THEN "Failed to load expenses from the database."
    ELSE IF c.by = "handleSaveExpense" THEN "Save failed"
    ELSE "Failed to delete expense."

\* the store rejects the oldest call: nothing is written, and the catch
\* block of the awaiting handler raises its alert
callRejected ==
    /\ queue # <<>>
    /\ listAtIssue' = Tail(listAtIssue)
    /\ queue' = Tail(queue)
    /\ alert' = CatchAlert(Head(queue))
    /\ event' = "callRejected"
    /\ UNCHANGED <<db, nextId, expenses, amount, category, note, filter, editingId, now, tz>>

Next ==
    \/ setAmount
    \/ setCategory
    \/ setNote
    \/ setFilter
    \/ handleSaveExpense
    \/ deleteExpense
    \/ startEditExpense
    \/ cancelEdit
    \/ Tick
    \/ setupResolved
    \/ loadResolved
    \/ saveResolved
    \/ deleteResolved
    \/ callRejected

Spec == Init /\ [][Next]_vars

-----------------------------------------------------------------------------
(* Session: the screen with the window left at ALL. The window only decides *)
(* which rows are on screen to tap: every row is on screen under ALL, so    *)
(* every store, list, form and edit state the screen can reach with the     *)
(* filter buttons it can reach without them.                                 *)

NextSession ==
    \/ setAmount
    \/ setCategory
    \/ setNote
    \/ handleSaveExpense
    \/ deleteExpense
    \/ startEditExpense
    \/ cancelEdit
    \/ Tick
    \/ setupResolved
    \/ loadResolved
    \/ saveResolved
    \/ deleteResolved
    \/ callRejected

Session == Init /\ [][NextSession]_vars

-----------------------------------------------------------------------------
(* SessionOk: the sessions in which the store rejects no call.              *)

NextSessionOk ==
    \/ setAmount
    \/ setCategory
    \/ setNote
    \/ handleSaveExpense
    \/ deleteExpense
    \/ startEditExpense
    \/ cancelEdit
    \/ Tick
    \/ setupResolved
    \/ loadResolved
    \/ saveResolved
    \/ deleteResolved

SessionOk == Init /\ [][NextSessionOk]_vars

-----------------------------------------------------------------------------
(* SpecForm: one press of the save button on any form. The table holds one  *)
(* record added the day before and already loaded; the user has typed any   *)
(* texts, in Idle or while editing that record.                              *)

\* the record added the day before
SeedRow(zone) ==
    Row(1, 30, <<"g">>, <<"m">>, getTodayString(StartClock - 24 * 60 * 60, zone))

InitForm ==
    /\ tz \in TimeZones
    /\ db = {SeedRow(tz)}
    /\ nextId = 2
    /\ queue = <<>>
    /\ listAtIssue = <<>>
    /\ expenses = <<SeedRow(tz)>>
    /\ amount \in AmountTexts
    /\ category \in CategoryTexts
    /\ note \in NoteTexts
    /\ filter = "ALL"
    /\ editingId \in {0, 1}
    /\ now = StartClock
    /\ alert = "none"
    /\ event = "setAmount"

NextForm ==
    \/ handleSaveExpense
    \/ Tick
    \/ loadResolved
    \/ saveResolved
    \/ callRejected

SpecForm == InitForm /\ [][NextForm]_vars

-----------------------------------------------------------------------------
(* SpecWindow: the window filters over any table. The screen has just been  *)
(* opened on a table whose rows carry any date text, on any reference day,   *)
(* hour and local offset; the list loads and the user picks windows.         *)

\* rows of a table in one list
MaxWindowRows == 2
\* days before and after the reference day that a record may be dated
MaxDayShift == 8

\* local reference days: the spec's example (a Friday), a Sunday that is the
\* last day of a year, the first day of a year, a leap day, the first and
\* the last day of a month
RefDays ==
    { DaysFromCivil(2024, 3, 15), DaysFromCivil(2023, 12, 31),
      DaysFromCivil(2024, 1, 1), DaysFromCivil(2024, 2, 29),
      DaysFromCivil(2024, 3, 1), DaysFromCivil(2024, 3, 31) }

RefHours == {0, 12, 23}

\* the text "YYYY-MM-DD" of day number dn
YmdOfDay(dn) ==
    LET c == CivilFromDays(dn) IN Ymd(c.y, c.m, c.d)

\* date texts that are not "YYYY-MM-DD" of a calendar day: NULL, "", "abc",
\* "2024-13-45", and the ISO date-time "YYYY-MM-DDT12:00:00Z" of day dn
OddDates(dn) ==
    { NoDate,
      DateText("empty", 0, 0, 0, 0),
      DateText("text", 0, 0, 0, 0),
      Ymd(2024, 13, 45),
      [YmdOfDay(dn) EXCEPT !.k = "ymdT", !.h = 12] }

\* the tables of at most n rows, ids 1..n, with dates from dates
TablesOf(n, dates) ==
    UNION { { {Row(i, 20, <<"f">>, NULL, f[i]) : i \in 1..k} : f \in [1..k -> dates] } :
            k \in 1..n }

InitWindow ==
    /\ tz \in TimeZones
    /\ \E ref \in RefDays : \E h \in RefHours :
          /\ now = FromLocal(ref, h * 60 * 60, 0, tz).s
          /\ db \in TablesOf(MaxWindowRows,
                    {YmdOfDay(ref + k - MaxDayShift) : k \in 0..(2 * MaxDayShift)}
                        \cup OddDates(ref))
    /\ nextId = Cardinality(db) + 1
    /\ queue = <<SelectCall>>
    /\ listAtIssue = << <<>> >>
    /\ expenses = <<>>
    /\ amount = <<>>
    /\ category = <<>>
    /\ note = <<>>
    /\ filter = "ALL"
    /\ editingId = 0
    /\ alert = "none"
    /\ event = "setupResolved"

NextView ==
    \/ loadResolved
    \/ setFilter

SpecWindow == InitWindow /\ [][NextView]_vars

-----------------------------------------------------------------------------
(* SpecTotals: the summary over any table. The rows carry any category and  *)
(* amount and today's date.                                                  *)

\* rows of a table in one list
MaxTotalsRows == 3

TotalsCategories ==
    { <<"f">>, <<"F">>, <<>>, <<"1", "0">>, <<"2">>,
      <<"c", "o", "n", "s", "t", "r", "u", "c", "t", "o", "r">> }

TotalsAmounts == {0, 15, 20}

InitTotals ==
    /\ tz \in TimeZones
    /\ now = StartClock
    /\ \E k \in 1..MaxTotalsRows :
          \E f \in [1..k -> TotalsCategories \X TotalsAmounts] :
              db = {Row(i, f[i][2], f[i][1], NULL, getTodayString(now, tz)) : i \in 1..k}
    /\ nextId = Cardinality(db) + 1
    /\ queue = <<SelectCall>>
    /\ listAtIssue = << <<>> >>
    /\ expenses = <<>>
    /\ amount = <<>>
    /\ category = <<>>
    /\ note = <<>>
    /\ filter = "ALL"
    /\ editingId = 0
    /\ alert = "none"
    /\ event = "setupResolved"

SpecTotals == InitTotals /\ [][NextView]_vars

-----------------------------------------------------------------------------
(* SpecLegacy: the screen of src/ExpenseScreen.js. It renders the window   *)
(* buttons, the summary and the rows with their delete button; it renders   *)
(* no form, no save button and no tap on a row, so the table it opens holds *)
(* the records written before. Its handlers await the store outside any     *)
(* try block.                                                               *)

\* deleteExpense(id) of src/ExpenseScreen.js up to its await
deleteExpense_ES ==
    \E i \in 1..Len(filteredExpenses) :
        /\ Len(queue) < MaxQueue
        /\ listAtIssue' = Append(listAtIssue, expenses)
        /\ queue' = Append(queue,
               Call("delete", "deleteExpense", filteredExpenses[i].id, 0, <<>>,
                    NULL, NoDate))
        /\ alert' = "none"
        /\ event' = "deleteExpense"
        /\ UNCHANGED <<db, nextId, expenses, amount, category, note, filter,
                       editingId, now, tz>>

\* the store rejects the oldest call: the await throws, the rest of the
\* handler is skipped and the promise of the handler rejects with nobody
\* to catch it
callRejected_ES ==
    /\ queue # <<>>
    /\ listAtIssue' = Tail(listAtIssue)
    /\ queue' = Tail(queue)
    /\ alert' = "none"
    /\ event' = "callRejected"
    /\ UNCHANGED <<db, nextId, expenses, amount, category, note, filter, editingId, now, tz>>

InitLegacy ==
    /\ tz \in TimeZones
    /\ now = StartClock
    /\ db \in TablesOf(MaxWindowRows,
                 { getTodayString(now, tz),
                   getTodayString(now - 40 * 24 * 60 * 60, tz) })
    /\ nextId = Cardinality(db) + 1
    /\ queue = <<ExecCall>>
    /\ listAtIssue = << <<>> >>
    /\ expenses = <<>>
    /\ amount = <<>>
    /\ category = <<>>
    /\ note = <<>>
    /\ filter = "ALL"
    /\ editingId = 0
    /\ alert = "none"
    /\ event = "mount"

NextLegacy ==
    \/ setFilter
    \/ deleteExpense_ES
    \/ setupResolved
    \/ loadResolved
    \/ deleteResolved
    \/ callRejected_ES

SpecLegacy == InitLegacy /\ [][NextLegacy]_vars

-----------------------------------------------------------------------------
(* Properties *)

Ids(rows) == {r.id : r \in rows}

Last(q) == q[Len(q)]

\* the amount text parses to a number greater than 0
AmountOk(a) == ~parseFloat(a).nan /\ parseFloat(a).v > 0

\* the form is one a save request accepts
FormPasses(a, c) == AmountOk(a) /\ trim(c) # <<>>

ValidationAlerts == {"Missing amount", "Missing category", "Invalid amount"}

\* the step resolves an UPDATE
UpdateResolves == event' = "saveResolved" /\ Head(queue).op = "update"

\* the step resolves an INSERT
InsertResolves == event' = "saveResolved" /\ Head(queue).op = "insert"

\* C1: the stored date of a record never changes after creation. No step
\* changes the date of a stored record; a resolved UPDATE keeps the set of
\* ids and every record but the one it names; and the loaded list shows each
\* stored record with the date the store holds.
C1_DateNeverChanges ==
    [][ /\ \A r \in db : \A q \in db' : q.id = r.id => q.date = r.date
        /\ UpdateResolves =>
               /\ Ids(db') = Ids(db)
               /\ \A r \in db : r.id # Head(queue).id => r \in db'
        /\ \A i \in 1..Len(expenses') : \A q \in db' :
               q.id = expenses'[i].id => q.date = expenses'[i].date
      ]_vars

\* an UPDATE has resolved on a local day after the day its record was added:
\* the store holds the edited note, the list still the note before the edit
C1_Witness ==
    /\ event = "saveResolved"
    /\ \E r \in db : \E i \in 1..Len(expenses) :
          /\ expenses[i].id = r.id
          /\ expenses[i].note # r.note
          /\ r.date # getTodayString(now, tz)

\* C2: a save request that fails validation issues no store call and leaves
\* the store, the list, the form and the edit state as they were.
C2_FailedValidationChangesNothing ==
    [][ (event' = "handleSaveExpense" /\ ~FormPasses(amount, category)) =>
            UNCHANGED <<db, nextId, queue, listAtIssue, expenses, amount, category, note,
                        filter, editingId>>
      ]_vars

\* a save request in Editing has just failed on the amount
C2_Witness ==
    /\ event = "handleSaveExpense"
    /\ alert = "Invalid amount"
    /\ editingId = 1
    /\ queue = <<>>

\* C3, as claimed: whatever the category text, a save request with an amount
\* text that does not parse or parses to a value <= 0 fails with the reason
\* InvalidAmount.
C3_Claimed ==
    (event = "handleSaveExpense" /\ ~AmountOk(amount)) => alert = "Invalid amount"

\* C3, amended: such a request always fails: with "Missing amount" when the
\* amount text is empty after trimming, else with "Missing category" when the
\* category text is empty after trimming, else with "Invalid amount".
C3_BadAmountFails ==
    (event = "handleSaveExpense" /\ ~AmountOk(amount)) =>
        alert = (IF trim(amount) = <<>> THEN "Missing amount"
                 ELSE IF trim(category) = <<>> THEN "Missing category"
                 ELSE "Invalid amount")

\* a save request with the amount text "0" and a category has just failed
C3_Witness ==
    /\ event = "handleSaveExpense"
    /\ amount = <<"0">>
    /\ trim(category) # <<>>
    /\ alert = "Invalid amount"

\* C4, as claimed: whatever the amount text, a save request with a category
\* text that is empty after trimming fails with the reason MissingCategory.
C4_Claimed ==
    (event = "handleSaveExpense" /\ trim(category) = <<>>) =>
        alert = "Missing category"

\* C4, amended: it does for every amount text that is not empty after
\* trimming.
C4_BlankCategoryFails ==
    (event = "handleSaveExpense" /\ trim(category) = <<>> /\ trim(amount) # <<>>) =>
        alert = "Missing category"

\* a save request with a blank category and an amount text that is no number
\* has just failed
C4_Witness ==
    /\ event = "handleSaveExpense"
    /\ category = <<" ">>
    /\ amount = <<"x">>
    /\ alert = "Missing category"

C10_AddRoundTrip ==
    [][ /\ (event' = "handleSaveExpense" /\ editingId = 0
                /\ FormPasses(amount, category)) =>
               /\ Len(queue') = Len(queue) + 1
               /\ SubSeq(queue', 1, Len(queue)) = queue
               /\ Last(queue').op = "insert"
               /\ Last(queue').amount = parseFloat(amount).v
               /\ Last(queue').category = trim(category)
               /\ Last(queue').note = (IF trim(note) = <<>> THEN NULL ELSE trim(note))
               /\ Last(queue').date = getTodayString(now, tz)
        /\ InsertResolves =>
               \E r \in db' :
                   /\ r \notin db
                   /\ db' = db \cup {r}
                   /\ \A q \in db : q.id < r.id
                   /\ r.id >= nextId
                   /\ nextId' > r.id
                   /\ r.amount = Head(queue).amount
                   /\ r.category = Head(queue).category
                   /\ r.note = Head(queue).note
                   /\ r.date = Head(queue).date
                   /\ Last(queue') = SelectCall
        /\ event' = "loadResolved" =>
               /\ Len(expenses') = Cardinality(db)
               /\ \A r \in db : \E i \in 1..Len(expenses') : expenses'[i] = r
               /\ \A i \in 1..Len(expenses') - 1 : expenses'[i].id > expenses'[i + 1].id
      ]_vars

\* an add with a blank note has resolved and the list is reloaded: the new
\* record, without a note, heads the list
C10_Witness ==
    /\ event = "loadResolved"
    /\ Len(expenses) = 2
    /\ expenses[1].id = 2
    /\ expenses[1].note = NULL
    /\ expenses[1].category = <<"f">>
    /\ expenses[2] = SeedRow(tz)

Shown == {filteredExpenses[i] : i \in 1..Len(filteredExpenses)}

\* the date text is "YYYY-MM-DD" of a calendar day
WellFormed(dt) ==
    /\ dt.k = "ymd"
    /\ dt.m \in 1..12
    /\ dt.d >= 1
    /\ dt.d <= DaysInMonth(dt.y, dt.m)

\* the local day number of the clock
RefDay == (now + tz * 60) \div (24 * 60 * 60)

\* the day number of the most recent Sunday at or before the reference day
RefSunday == RefDay - ((RefDay + 4) % 7)

\* C6, as claimed: under WEEK a record is shown iff its calendar date lies
\* from the Sunday at or before the reference day to the Saturday after it.
C6_Claimed ==
    filter = "WEEK" =>
        \A i \in 1..Len(expenses) :
            WellFormed(expenses[i].date) =>
                (expenses[i] \in Shown <=>
                    LET dn == DaysFromCivil(expenses[i].date.y, expenses[i].date.m,
                                            expenses[i].date.d)
                    IN  RefSunday <= dn /\ dn <= RefSunday + 6)

\* C7, as claimed: under MONTH a record is shown iff the year and month of
\* its date text are the local year and month of the reference day.
C7_Claimed ==
    filter = "MONTH" =>
        \A i \in 1..Len(expenses) :
            WellFormed(expenses[i].date) =>
                (expenses[i] \in Shown <=>
                    /\ expenses[i].date.y = CivilFromDays(RefDay).y
                    /\ expenses[i].date.m = CivilFromDays(RefDay).m)

\* C8, as claimed: a record whose date is absent or malformed is shown under
\* ALL and hidden under WEEK and MONTH.
C8_Claimed ==
    \A i \in 1..Len(expenses) :
        ~WellFormed(expenses[i].date) =>
            (expenses[i] \in Shown <=> filter = "ALL")

\* the sum of the amounts of the records of list whose category key is in keys
RECURSIVE SumOf(_, _)
SumOf(list, keys) ==
    IF list = <<>> THEN 0
    ELSE (IF Head(list).category \in keys THEN Head(list).amount ELSE 0)
             + SumOf(Tail(list), keys)

RECURSIVE SumValues(_)
SumValues(obj) ==
    IF obj = <<>> THEN 0 ELSE Head(obj).v + SumValues(Tail(obj))

\* the stored categories that key k of the summary stands for
StoredAs(k) == IF k = Uncategorized THEN {<<>>, Uncategorized} ELSE {k}

AllCategories(list) == {list[i].category : i \in 1..Len(list)}

\* C9, as claimed: total is the sum of the amounts of the filtered records;
\* the keys of by_category are the categories that occur ("Uncategorized"
\* for an empty one), each mapped to the sum of the amounts of its records,
\* so the values sum to total.
C9_Claimed ==
    LET list == filteredExpenses
        obj  == categoryTotals(list)
    IN  /\ totalSpending(list) = SumOf(list, AllCategories(list))
        /\ {obj[i].key : i \in 1..Len(obj)} =
              {IF c = <<>> THEN Uncategorized ELSE c : c \in AllCategories(list)}
        /\ \A i \in 1..Len(obj) : \A j \in 1..Len(obj) : obj[i].key = obj[j].key => i = j
        /\ \A i \in 1..Len(obj) :
              obj[i].isNum /\ obj[i].v = SumOf(list, StoredAs(obj[i].key))
        /\ SumValues(obj) = totalSpending(list)

\* C11: a resolved DELETE removes from the store exactly the records with the
\* id it names and issues the reload; an id that has left the store never
\* comes back; and a resolved reload makes the list the records of the store,
\* so the list reloaded after the DELETE holds no record with that id and
\* holds every other record as it is stored.
C11_DeleteRemovesOnlyThatId ==
    [][ /\ event' = "deleteResolved" =>
               /\ Head(queue).id \notin Ids(db')
               /\ db' = {r \in db : r.id # Head(queue).id}
               /\ Last(queue') = SelectCall
        /\ \A id \in 1..(nextId - 1) : id \notin Ids(db) => id \notin Ids(db')
        /\ event' = "loadResolved" =>
               /\ {expenses'[i] : i \in 1..Len(expenses')} = db
               /\ Len(expenses') = Cardinality(db)
      ]_vars

\* two records were added, record 1 deleted, and the list is reloaded: it
\* holds record 2 alone
C11_Witness ==
    /\ event = "loadResolved"
    /\ queue = <<>>
    /\ nextId = 3
    /\ Ids(db) = {2}
    /\ Len(expenses) = 1
    /\ expenses[1].id = 2
    /\ expenses[1] \in db

\* C12: a delete request for the record being edited leaves edit mode (and
\* clears the form); a delete request for any other record leaves the edit
\* state and the form texts as they are; and the completion of the DELETE,
\* resolved or rejected, changes neither.
C12_DeleteAndEditState ==
    [][ /\ event' = "deleteExpense" =>
               IF editingId = Last(queue').id
               THEN editingId' = 0 /\ amount' = <<>> /\ category' = <<>> /\ note' = <<>>
               ELSE UNCHANGED <<editingId, amount, category, note>>
        /\ (event' \in {"deleteResolved", "callRejected"} /\ Head(queue).op = "delete") =>
               UNCHANGED <<editingId, amount, category, note>>
      ]_vars

\* record 2 has just been deleted while record 1 is being edited: the edit
\* goes on with the text typed so far
C12_Witness ==
    /\ event = "deleteExpense"
    /\ Last(queue).id = 2
    /\ editingId = 1
    /\ amount = <<"2">>
    /\ note = <<"n">>

\* C13: Cancel Edit, pressed while editing, leaves edit mode and clears the
\* three form texts; it issues no store call and changes neither the store
\* nor the list.
C13_CancelOnlyResetsForm ==
    [][ event' = "cancelEdit" =>
            /\ editingId # 0
            /\ editingId' = 0
            /\ amount' = <<>>
            /\ category' = <<>>
            /\ note' = <<>>
            /\ UNCHANGED <<db, nextId, queue, listAtIssue, expenses>>
      ]_vars

\* an edit has just been cancelled while a call was in flight
C13_Witness ==
    /\ event = "cancelEdit"
    /\ editingId = 0
    /\ amount = <<>>
    /\ expenses # <<>>
    /\ queue # <<>>

\* C14, as claimed: when a store call fails the list is what it was when
\* the call was issued, and the failure issues no call.
C14_Claimed ==
    [][ event' = "callRejected" =>
            /\ expenses' = Head(listAtIssue)
            /\ queue' = Tail(queue)
      ]_vars

\* C15, as claimed: every failure is followed by a reported error: a save
\* request that fails validation raises one of the three validation alerts,
\* and a rejected store call raises the alert of its handler.
C15_Claimed ==
    /\ (event = "handleSaveExpense" /\ ~FormPasses(amount, category)) =>
           alert \in ValidationAlerts
    /\ event = "callRejected" => alert # "none"

\* C16, as claimed: at most one store call is in flight at any time, so no
\* call is issued while another is unresolved.
C16_Claimed == Len(queue) <= 1

\* the list holds exactly the records of rows, by strictly descending id
ListsStore(list, rows) ==
    /\ Len(list) = Cardinality(rows)
    /\ \A r \in rows : \E i \in 1..Len(list) : list[i] = r
    /\ \A i \in 1..Len(list) - 1 : list[i].id > list[i + 1].id

\* C17: while every store call succeeds, the list holds exactly the records
\* of the store, by strictly descending id, whenever no call is in flight;
\* a reload that resolves is the oldest call in flight and sets the list to
\* the store as it is at that moment, so it shows every INSERT, UPDATE and
\* DELETE resolved before it and no older reload resolves after it.
C17_ListMirrorsStore ==
    [][ /\ queue' = <<>> => ListsStore(expenses', db')
        /\ event' = "loadResolved" =>
               /\ db' = db
               /\ ListsStore(expenses', db)
               /\ Head(queue).op = "select"
               /\ queue' = Tail(queue)
      ]_vars

\* an add, an edit of the first record and a second add have resolved and
\* no call is in flight: the list shows both records, the edited one with
\* its new note
C17_Witness ==
    /\ queue = <<>>
    /\ event = "loadResolved"
    /\ Len(expenses) = 2
    /\ expenses[1].id = 2
    /\ expenses[1].note = NULL
    /\ expenses[2].id = 1
    /\ expenses[2].note = <<"n">>
    /\ expenses[2] \in db

\* C18: a save pressed while editing with a form that passes issues exactly
\* one call, the UPDATE of the edited id, and changes nothing else; when the
\* UPDATE resolves the store keeps its ids and every record but the one
\* named, edit mode is left and the form is cleared; when the UPDATE is
\* rejected the store, the edit state and the form stay as they are.
C18_SaveWhileEditing ==
    [][ /\ (event' = "handleSaveExpense" /\ editingId # 0
                /\ FormPasses(amount, category)) =>
               /\ Len(queue') = Len(queue) + 1
               /\ SubSeq(queue', 1, Len(queue)) = queue
               /\ Last(queue').op = "update"
               /\ Last(queue').id = editingId
               /\ UNCHANGED <<db, nextId, expenses, editingId, amount, category, note>>
        /\ UpdateResolves =>
               /\ Ids(db') = Ids(db)
               /\ Cardinality(db') = Cardinality(db)
               /\ \A r \in db : r.id # Head(queue).id => r \in db'
               /\ nextId' = nextId
               /\ editingId' = 0
               /\ amount' = <<>>
               /\ category' = <<>>
               /\ note' = <<>>
        /\ (event' = "callRejected" /\ Head(queue).op = "update") =>
               /\ alert' = "Save failed"
               /\ UNCHANGED <<db, nextId, expenses, editingId, amount, category, note>>
      ]_vars

\* the only record ever added has been edited and its UPDATE has resolved:
\* the store holds the new note, edit mode is left and the form is blank
C18_Witness ==
    /\ event = "saveResolved"
    /\ nextId = 2
    /\ Cardinality(db) = 1
    /\ \E r \in db : r.note = <<"n">>
    /\ Len(expenses) = 1
    /\ expenses[1].note = NULL
    /\ editingId = 0
    /\ amount = <<>>
    /\ category = <<>>
    /\ note = <<>>

\* the summary key of a record's category
KeyOf(exp) == IF exp.category = <<>> THEN Uncategorized ELSE exp.category

\* the summary keys of list in the order in which each first appears
RECURSIVE FirstSeen(_)
FirstSeen(list) ==
    IF list = <<>> THEN <<>>
    ELSE LET rest == FirstSeen(SubSeq(list, 1, Len(list) - 1))
             k    == KeyOf(list[Len(list)])
         IN  IF \E i \in 1..Len(rest) : rest[i] = k THEN rest ELSE Append(rest, k)

\* C19, as claimed: the category lines of the summary come in the order in
\* which each category first appears among the filtered records.
C19_Claimed ==
    LET obj == categoryTotals(filteredExpenses)
    IN  [i \in 1..Len(obj) |-> obj[i].key] = FirstSeen(filteredExpenses)

\* C20, as claimed: while a record is being edited, the list holds a record
\* with the edited id.
C20_Claimed ==
    editingId # 0 => \E i \in 1..Len(expenses) : expenses[i].id = editingId

====
